---- MODULE Spec2Model ----
(***************************************************************************)
(* Model of src/mcp_client_agent_roc.py: an MCP client that registers the  *)
(* tools of an MCP server as a return-of-control action group of a Bedrock *)
(* agent, then runs an interactive loop.  Each query is one turn (chat):   *)
(* invoke the agent, consume its event stream, on a returnControl event    *)
(* call the MCP tool, invoke the agent again with the tool result and      *)
(* consume the resumed stream.                                             *)
(*                                                                         *)
(* The MCP server and the agent runtime are external: what they answer     *)
(* (tool lists, events, tool results, failures) is chosen                  *)
(* nondeterministically from small sets.                                   *)
(***************************************************************************)
EXTENDS Integers, Sequences, FiniteSets, TLC

(***************************************************************************)
(* Bounds of the model.                                                    *)
(***************************************************************************)
\* queries (other than quit) read by one run of chat_loop
MaxTurns == 2
\* events read from one event stream
MaxStreamLen == 3
\* {name, value} items in the parameters of one returnControl event
MaxArgs == 2

(***************************************************************************)
(* Python values.                                                          *)
(***************************************************************************)
\* the event type used for a variable that holds None instead of an event
None == "None"
NoEvent == [type |-> None]
\* the exception record used when no exception is in flight
NoExc == [type |-> None, msg |-> "", cause |-> None, key |-> None]

\* sequences over S of length at most n
SeqUpTo(S, n) == UNION {[1..k -> S] : k \in 0..n}

(***************************************************************************)
(* Strings that the code inspects are sequences of characters.             *)
(***************************************************************************)
Str_py == <<"s", ".", "p", "y">>
Str_sh == <<"s", ".", "s", "h">>
ServerPaths == {Str_py, Str_sh}

\* str.endswith(suffix)
EndsWith(s, suffix) ==
    /\ Len(s) >= Len(suffix)
    /\ SubSeq(s, Len(s) - Len(suffix) + 1, Len(s)) = suffix

\* str.endswith(('.py', '.js'))
EndsWithAny(s, suffixes) == \E x \in suffixes : EndsWith(s, x)

\* one character of str.lower()
LowerChar(c) ==
    CASE c = "Q" -> "q"
      [] c = "U" -> "u"
      [] c = "I" -> "i"
      [] c = "T" -> "t"
      [] OTHER -> c

\* str.lower()
Lower(s) == [i \in DOMAIN s |-> LowerChar(s[i])]

IsSpace(c) == c = " "

\* str.strip(): drop leading and trailing whitespace
RECURSIVE LStrip(_)
LStrip(s) == IF s # <<>> /\ IsSpace(Head(s)) THEN LStrip(Tail(s)) ELSE s

RECURSIVE RStrip(_)
RStrip(s) ==
    IF s # <<>> /\ IsSpace(s[Len(s)]) THEN RStrip(SubSeq(s, 1, Len(s) - 1)) ELSE s

Strip(s) == RStrip(LStrip(s))

Str_quit == <<"q", "u", "i", "t">>

\* lines the user may type at the prompt
Queries ==
    { Str_quit,
      <<" ", "Q", "u", "i", "t", " ">>,
      <<" ", "h", "i">> }

\* chat_loop: query.lower() == 'quit'
IsQuit(query) == Lower(query) = Str_quit

(***************************************************************************)
(* Tools of the MCP server, as list_tools reports them.                    *)
(***************************************************************************)
Tool_get_alerts ==
    [name |-> "get_alerts", description |-> "weather alerts",
     inputSchema |->
        [properties |-> ("state" :> [title |-> "State", type |-> "string"]),
         required |-> {"state"}]]

Tool_get_forecast ==
    [name |-> "get_forecast", description |-> "weather forecast",
     inputSchema |->
        [properties |-> ("state" :> [title |-> "State", type |-> "string"])
                        @@ ("days" :> [title |-> "Days", type |-> "integer"]),
         required |-> {"state"}]]

\* a tool whose input schema has no 'required' key
Tool_ping ==
    [name |-> "ping", description |-> "liveness",
     inputSchema |-> [properties |-> <<>>]]

\* the responses of list_tools
ToolLists ==
    { <<Tool_get_alerts>>,
      <<Tool_get_forecast, Tool_get_alerts>>,
      <<Tool_get_alerts, Tool_ping>> }

\* get_tools, lines 55-59: the list comprehension over response.tools
McpTools(tools) ==
    [i \in DOMAIN tools |->
        [name |-> tools[i].name,
         description |-> tools[i].description,
         parameters |-> tools[i].inputSchema]]

\* function['parameters']['required'] raises KeyError when the key is absent
RaisesKeyError(function) == "required" \notin DOMAIN function.parameters

\* one iteration of the outer loop of _make_bedrock_agent_functions_definitions
NewFunction(function) ==
    [name |-> function.name,
     description |-> function.description,
     parameters |->
        [param_name \in DOMAIN function.parameters.properties |->
            [description |-> function.parameters.properties[param_name].title,
             required |-> param_name \in function.parameters.required,
             type |-> function.parameters.properties[param_name].type]]]

\* _make_bedrock_agent_functions_definitions(format_a), when it does not raise
MakeBedrockAgentFunctionsDefinitions(format_a) ==
    [i \in DOMAIN format_a |-> NewFunction(format_a[i])]

(***************************************************************************)
(* Events of the agent's event stream.                                     *)
(***************************************************************************)
ChunkTexts == {"Sunny today.", "72F"}
\* the {name, value} items of functionInvocationInput.parameters
ArgItems ==
    { [name |-> "state", value |-> "CA"],
      [name |-> "state", value |-> "NY"],
      [name |-> "days", value |-> "3"] }
\* the invocationId and the actionGroup of a returnControl event
Invocations ==
    { [invocationId |-> "inv-1", actionGroup |-> "mcp_tools"],
      [invocationId |-> "inv-2", actionGroup |-> "other_group"] }
FunctionNames == {"get_alerts", "get_time"}

\* functionInvocationInput.parameters: an ordered list of {name, value} items
ParameterLists == SeqUpTo(ArgItems, MaxArgs)

ChunkEvents == [type : {"chunk"}, text : ChunkTexts]
TraceEvents == {[type |-> "trace"]}
ReturnControlEvents ==
    { [type |-> "returnControl", invocationId |-> h.invocationId,
       actionGroup |-> h.actionGroup, function |-> f, parameters |-> p] :
      h \in Invocations, f \in FunctionNames, p \in ParameterLists }
\* an event with none of the keys 'returnControl', 'chunk', 'trace'
OtherEvents == {[type |-> "files"]}

Events == ChunkEvents \cup TraceEvents \cup ReturnControlEvents \cup OtherEvents

(***************************************************************************)
(* Answers of the MCP server to call_tool.                                 *)
(***************************************************************************)
ToolTexts == {"no alerts", "error"}
TextContent == [type : {"text"}, text : ToolTexts]
ImageContent == {[type |-> "image"]}

\* call_tool returns a result with a content list, or raises
ToolReplies ==
    {[raised |-> TRUE]}
    \cup {[raised |-> FALSE, content |-> c] :
            c \in {<<>>} \cup {<<x>> : x \in TextContent \cup ImageContent}
                 \cup {<<[type |-> "image"], x>> : x \in TextContent}}

\* handle_tool_call, line 122: {item['name']: item['value'] for item in function_args}
\* a dict comprehension keeps, for each key, the value of its last item
LastIndexOf(function_args, n) ==
    CHOOSE i \in DOMAIN function_args :
        /\ function_args[i].name = n
        /\ \A j \in DOMAIN function_args : function_args[j].name = n => j <= i

ToolArgs(function_args) ==
    [n \in {function_args[i].name : i \in DOMAIN function_args} |->
        function_args[LastIndexOf(function_args, n)].value]

(***************************************************************************)
(* Exceptions.                                                             *)
(***************************************************************************)
\* cause: the type of the exception this one wraps; key: the key of the
\* event the wrapped exception carries
Exc(type, msg) == [type |-> type, msg |-> msg, cause |-> None, key |-> None]

\* lines 166-167 and 215-216: whatever the loop raises is caught and
\* re-raised as Exception("unexpected event.", e)
Wrapped(cause, key) ==
    [type |-> "Exception", msg |-> "unexpected event.", cause |-> cause, key |-> key]

(***************************************************************************)
(* State.                                                                  *)
(***************************************************************************)
VARIABLES
    pc,             \* where the program is
    argv,           \* sys.argv
    session,        \* MCPClient.session: None or the connected ClientSession
    mcp_tools,      \* main: the function definitions returned by get_tools
    registered,     \* the functions of the agent's action group
    turn,           \* queries passed to chat so far
    uuid,           \* calls of uuid.uuid1() so far
    session_id,     \* chat: session_id
    function_call,  \* chat: function_call
    agent_answer,   \* chat: agent_answer
    nread,          \* events read from the current event stream
    tool_result,    \* chat: tool_result
    invokes,        \* the invoke_agent requests of the current turn
    toolCalls,      \* the call_tool requests of the current turn, each with
                    \* the event its name and arguments were taken from
    runSessions,    \* the sessionIds of all invoke_agent requests of the run
    exc,            \* the exception being propagated
    out,            \* what chat_loop printed since the last prompt
    cleanups        \* calls of cleanup

vars == <<pc, argv, session, mcp_tools, registered, turn, uuid, session_id,
          function_call, agent_answer, nread, tool_result, invokes,
          toolCalls, runSessions, exc, out, cleanups>>

startupVars == <<argv, session, mcp_tools, registered>>
localVars == <<session_id, function_call, agent_answer, nread, tool_result>>
logVars == <<invokes, toolCalls, runSessions>>

NoOutput == [kind |-> "none", answer |-> None, exc |-> NoExc]

Init ==
    /\ pc = "main"
    /\ argv = <<>>
    /\ session = None
    /\ mcp_tools = <<>>
    /\ registered = <<>>
    /\ turn = 0
    /\ uuid = 0
    /\ session_id = 0
    /\ function_call = NoEvent
    /\ agent_answer = None
    /\ nread = 0
    /\ tool_result = None
    /\ invokes = <<>>
    /\ toolCalls = <<>>
    /\ runSessions = {}
    /\ exc = NoExc
    /\ out = NoOutput
    /\ cleanups = 0

\* the locals of chat are gone when chat returns or its exception is handled
ResetLocals ==
    /\ session_id' = 0
    /\ function_call' = NoEvent
    /\ agent_answer' = None
    /\ nread' = 0
    /\ tool_result' = None

(***************************************************************************)
(* Startup: main up to the call of chat_loop.                              *)
(***************************************************************************)
\* a startup that goes on to the session loop after a failure
Crash_Swallowed(e) ==
    /\ pc' = "input"
    /\ exc' = e

\* an exception raised before the try of main leaves main
Crash(e) ==
    /\ pc' = "crashed"
    /\ exc' = e

\* main, lines 239-243
Main(args) ==
    /\ pc = "main"
    /\ argv' = args
    /\ pc' = IF Len(args) < 2 THEN "exit1" ELSE "connect"
    /\ UNCHANGED <<session, mcp_tools, registered, turn, uuid, exc, out, cleanups>>
    /\ UNCHANGED localVars
    /\ UNCHANGED logVars

\* connect_to_server, lines 32-47
ConnectToServer(ok) ==
    /\ pc = "connect"
    /\ IF ~EndsWithAny(argv[2], {<<".", "p", "y">>, <<".", "j", "s">>})
       THEN Crash(Exc("ValueError", "Server script must be a .py or .js file"))
            /\ UNCHANGED session
       ELSE IF ~ok
       THEN Crash(Exc("OSError", "")) /\ UNCHANGED session
       ELSE /\ session' = "ClientSession"
            /\ pc' = "get_tools"
            /\ UNCHANGED exc
    /\ UNCHANGED <<argv, mcp_tools, registered, turn, uuid, out, cleanups>>
    /\ UNCHANGED localVars
    /\ UNCHANGED logVars

\* get_tools, lines 50-63
GetTools(tools, ok) ==
    /\ pc = "get_tools"
    /\ IF ~ok
       THEN Crash(Exc("McpError", "")) /\ UNCHANGED mcp_tools
       ELSE IF \E i \in DOMAIN tools : RaisesKeyError(McpTools(tools)[i])
       THEN Crash(Exc("KeyError", "required")) /\ UNCHANGED mcp_tools
       ELSE /\ mcp_tools' = MakeBedrockAgentFunctionsDefinitions(McpTools(tools))
            /\ pc' = "update_agent"
            /\ UNCHANGED exc
    /\ UNCHANGED <<argv, session, registered, turn, uuid, out, cleanups>>
    /\ UNCHANGED localVars
    /\ UNCHANGED logVars

\* update_bedrock_agent, lines 92-114, called with mcp_tools
UpdateBedrockAgent(outcome) ==
    /\ pc = "update_agent"
    /\ CASE outcome = "create_failed" ->
                Crash(Exc("ClientError", "")) /\ UNCHANGED registered
         [] outcome = "prepare_failed" ->
                Crash(Exc("ClientError", "")) /\ registered' = mcp_tools
         [] OTHER ->
                /\ registered' = mcp_tools
                /\ pc' = "input"
                /\ UNCHANGED exc
    /\ UNCHANGED <<argv, session, mcp_tools, turn, uuid, out, cleanups>>
    /\ UNCHANGED localVars
    /\ UNCHANGED logVars

(***************************************************************************)
(* One turn: chat.                                                         *)
(***************************************************************************)
\* lines 142-149: the first invoke_agent request
InitialRequest(query, sid) ==
    [kind |-> "initial", sessionId |-> sid, inputText |-> query,
     enableTrace |-> FALSE, endSession |-> FALSE]

\* a resume request that carries a fixed invocation id instead of the event's
ResumeRequest_StaleInvocation(sid, fc, result) ==
    [kind |-> "resume", sessionId |-> sid, enableTrace |-> FALSE,
     sessionState |->
        [invocationId |-> "inv-1",
         actionGroup |-> fc.actionGroup,
         function |-> fc.function,
         body |-> result]]

\* a resume request under a session id other than the turn's
ResumeRequest_FreshSession(sid, fc, result) ==
    [kind |-> "resume", sessionId |-> sid + 1, enableTrace |-> FALSE,
     sessionState |->
        [invocationId |-> fc.invocationId,
         actionGroup |-> fc.actionGroup,
         function |-> fc.function,
         body |-> result]]

\* lines 182-200: the second invoke_agent request
ResumeRequest(sid, fc, result) ==
    [kind |-> "resume", sessionId |-> sid, enableTrace |-> FALSE,
     sessionState |->
        [invocationId |-> fc.invocationId,
         actionGroup |-> fc.actionGroup,
         function |-> fc.function,
         body |-> result]]

\* lines 157-165: the body of the first loop for one event; raised is the
\* exception the body raises (None when it raises nothing)
FirstLoopBody(fc, answer, e) ==
    CASE e.type = "returnControl" ->
            [function_call |-> e, agent_answer |-> answer, raised |-> None]
      [] e.type = "chunk" ->
            [function_call |-> fc, agent_answer |-> e.text, raised |-> None]
      [] e.type = "trace" ->
            \* print.info: the builtin print has no attribute info
            [function_call |-> fc, agent_answer |-> answer, raised |-> "AttributeError"]
      [] OTHER ->
            [function_call |-> fc, agent_answer |-> answer, raised |-> "Exception"]

\* a second loop that lets a returnControl event pass
ResumedLoopBody_IgnoresReturnControl(answer, e) ==
    CASE e.type = "chunk" -> [agent_answer |-> e.text, raised |-> None]
      [] e.type = "trace" -> [agent_answer |-> answer, raised |-> "AttributeError"]
      [] e.type = "returnControl" -> [agent_answer |-> answer, raised |-> None]
      [] OTHER -> [agent_answer |-> answer, raised |-> "Exception"]

\* lines 208-214: the body of the second loop for one event
ResumedLoopBody(answer, e) ==
    CASE e.type = "chunk" -> [agent_answer |-> e.text, raised |-> None]
      [] e.type = "trace" -> [agent_answer |-> answer, raised |-> "AttributeError"]
      [] OTHER -> [agent_answer |-> answer, raised |-> "Exception"]

\* chat raises e: its frame is left and the exception reaches the except
\* clause of chat_loop
Raise(e) ==
    /\ pc' = "except"
    /\ exc' = e
    /\ ResetLocals

\* chat returns answer: chat_loop prints the response and prompts again
Return(answer) ==
    /\ pc' = "input"
    /\ out' = [kind |-> "response", answer |-> answer, exc |-> NoExc]
    /\ ResetLocals
    /\ UNCHANGED exc

\* chat_loop, lines 225-228, and chat, lines 136-153: a line is read, and
\* unless it is quit a turn starts with the first invoke_agent call
ReadQuery(line, ok) ==
    /\ pc = "input"
    /\ LET query == Strip(line) IN
       IF IsQuit(query)
       THEN /\ pc' = "cleanup"
            /\ UNCHANGED <<turn, uuid, exc, out>>
            /\ UNCHANGED localVars
            /\ UNCHANGED logVars
       ELSE /\ turn < MaxTurns
            /\ turn' = turn + 1
            /\ uuid' = uuid + 1
            /\ invokes' = <<InitialRequest(query, uuid')>>
            /\ toolCalls' = <<>>
            /\ runSessions' = runSessions \cup {uuid'}
            /\ out' = NoOutput
            /\ IF ok
               THEN /\ session_id' = uuid'
                    /\ pc' = "stream1"
                    /\ UNCHANGED <<function_call, agent_answer, nread, tool_result, exc>>
               ELSE Raise(Exc("ClientError", ""))
    /\ UNCHANGED startupVars
    /\ UNCHANGED cleanups

\* a loop that ends when the input is exhausted
InputEOF_Exits ==
    /\ pc = "input"
    /\ pc' = "cleanup"
    /\ out' = NoOutput
    /\ UNCHANGED <<turn, uuid, exc, cleanups>>
    /\ UNCHANGED startupVars
    /\ UNCHANGED localVars
    /\ UNCHANGED logVars

\* chat_loop, line 225: input() raises EOFError when the input is exhausted
InputEOF ==
    /\ pc = "input"
    /\ Raise(Exc("EOFError", ""))
    /\ out' = NoOutput
    /\ UNCHANGED <<turn, uuid, cleanups>>
    /\ UNCHANGED startupVars
    /\ UNCHANGED logVars

\* lines 155-167: the first stream yields e
ReadEvent1(e) ==
    /\ pc = "stream1"
    /\ nread < MaxStreamLen
    /\ LET r == FirstLoopBody(function_call, agent_answer, e) IN
        IF r.raised = None
        THEN /\ nread' = nread + 1
             /\ function_call' = r.function_call
             /\ agent_answer' = r.agent_answer
             /\ UNCHANGED <<pc, exc, session_id, tool_result>>
        ELSE Raise(Wrapped(r.raised, e.type))
    /\ UNCHANGED <<turn, uuid, out, cleanups>>
    /\ UNCHANGED startupVars
    /\ UNCHANGED logVars

\* a chat that raises when the first stream ends without an answer
EndStream1_RejectsEmpty ==
    /\ pc = "stream1"
    /\ IF function_call # NoEvent
       THEN /\ pc' = "tool"
            /\ UNCHANGED <<exc, out>>
            /\ UNCHANGED localVars
       ELSE IF agent_answer = None
       THEN Raise(Exc("ValueError", "no answer")) /\ UNCHANGED out
       ELSE Return(agent_answer)
    /\ UNCHANGED <<turn, uuid, cleanups>>
    /\ UNCHANGED startupVars
    /\ UNCHANGED logVars

\* lines 156 and 169, 218: the first stream ends
EndStream1 ==
    /\ pc = "stream1"
    /\ IF function_call # NoEvent
       THEN /\ pc' = "tool"
            /\ UNCHANGED <<exc, out>>
            /\ UNCHANGED localVars
       ELSE Return(agent_answer)
    /\ UNCHANGED <<turn, uuid, cleanups>>
    /\ UNCHANGED startupVars
    /\ UNCHANGED logVars

\* lines 172-176 and handle_tool_call, lines 117-128: the call_tool request
HandleToolCall ==
    /\ pc = "tool"
    /\ LET function_name == function_call.function
           function_args == function_call.parameters
       IN toolCalls' = Append(toolCalls,
              [name |-> function_name, args |-> ToolArgs(function_args),
               request |-> function_call])
    /\ pc' = "call_tool"
    /\ UNCHANGED <<invokes, runSessions, turn, uuid, exc, out, cleanups>>
    /\ UNCHANGED startupVars
    /\ UNCHANGED localVars

\* a chat that sends the call_tool request again when call_tool raised
CallToolReturns_Retries(reply, ok) ==
    /\ pc = "call_tool"
    /\ IF reply.raised
       THEN /\ toolCalls' = Append(toolCalls, toolCalls[1])
            /\ UNCHANGED <<pc, exc, invokes>>
            /\ UNCHANGED localVars
       ELSE /\ UNCHANGED toolCalls
            /\ IF reply.content = <<>>
               THEN Raise(Exc("IndexError", "list index out of range")) /\ UNCHANGED invokes
               ELSE IF reply.content[1].type # "text"
               THEN Raise(Exc("AttributeError", "text")) /\ UNCHANGED invokes
               ELSE /\ invokes' = Append(invokes,
                            ResumeRequest(session_id, function_call, reply.content[1].text))
                    /\ IF ok
                       THEN /\ tool_result' = reply.content[1].text
                            /\ agent_answer' = None
                            /\ nread' = 0
                            /\ pc' = "stream2"
                            /\ UNCHANGED <<exc, session_id, function_call>>
                       ELSE Raise(Exc("ClientError", ""))
    /\ UNCHANGED <<runSessions, turn, uuid, out, cleanups>>
    /\ UNCHANGED startupVars

\* a chat that keeps the answer of the first stream when it resumes
CallToolReturns_KeepsAnswer(reply, ok) ==
    /\ pc = "call_tool"
    /\ IF reply.raised
       THEN Raise(Exc("McpError", "")) /\ UNCHANGED invokes
       ELSE IF reply.content = <<>>
       THEN Raise(Exc("IndexError", "list index out of range")) /\ UNCHANGED invokes
       ELSE IF reply.content[1].type # "text"
       THEN Raise(Exc("AttributeError", "text")) /\ UNCHANGED invokes
       ELSE /\ invokes' = Append(invokes,
                    ResumeRequest(session_id, function_call, reply.content[1].text))
            /\ IF ok
               THEN /\ tool_result' = reply.content[1].text
                    /\ nread' = 0
                    /\ pc' = "stream2"
                    /\ UNCHANGED <<exc, session_id, function_call, agent_answer>>
               ELSE Raise(Exc("ClientError", ""))
    /\ UNCHANGED <<toolCalls, runSessions, turn, uuid, out, cleanups>>
    /\ UNCHANGED startupVars

\* a chat that resumes with an empty body when the result has no content
CallToolReturns_ResumesWithoutText(reply, ok) ==
    /\ pc = "call_tool"
    /\ IF reply.raised
       THEN Raise(Exc("McpError", "")) /\ UNCHANGED invokes
       ELSE IF reply.content # <<>> /\ reply.content[1].type # "text"
       THEN Raise(Exc("AttributeError", "text")) /\ UNCHANGED invokes
       ELSE LET text == IF reply.content = <<>> THEN None ELSE reply.content[1].text IN
            /\ invokes' = Append(invokes, ResumeRequest(session_id, function_call, text))
            /\ IF ok
               THEN /\ tool_result' = text
                    /\ agent_answer' = None
                    /\ nread' = 0
                    /\ pc' = "stream2"
                    /\ UNCHANGED <<exc, session_id, function_call>>
               ELSE Raise(Exc("ClientError", ""))
    /\ UNCHANGED <<toolCalls, runSessions, turn, uuid, out, cleanups>>
    /\ UNCHANGED startupVars

\* lines 128-129 and 176-202: call_tool answers, and on a text result the
\* agent is invoked the second time
CallToolReturns(reply, ok) ==
    /\ pc = "call_tool"
    /\ IF reply.raised
       THEN Raise(Exc("McpError", "")) /\ UNCHANGED invokes
       ELSE IF reply.content = <<>>
       THEN Raise(Exc("IndexError", "list index out of range")) /\ UNCHANGED invokes
       ELSE IF reply.content[1].type # "text"
       THEN Raise(Exc("AttributeError", "text")) /\ UNCHANGED invokes
       ELSE /\ invokes' = Append(invokes,
                    ResumeRequest(session_id, function_call, reply.content[1].text))
            /\ IF ok
               THEN /\ tool_result' = reply.content[1].text
                    /\ agent_answer' = None
                    /\ nread' = 0
                    /\ pc' = "stream2"
                    /\ UNCHANGED <<exc, session_id, function_call>>
               ELSE Raise(Exc("ClientError", ""))
    /\ UNCHANGED <<toolCalls, runSessions, turn, uuid, out, cleanups>>
    /\ UNCHANGED startupVars

\* lines 206-216: the resumed stream yields e
ReadEvent2(e) ==
    /\ pc = "stream2"
    /\ nread < MaxStreamLen
    /\ LET r == ResumedLoopBody(agent_answer, e) IN
        IF r.raised = None
        THEN /\ nread' = nread + 1
             /\ agent_answer' = r.agent_answer
             /\ UNCHANGED <<pc, exc, session_id, function_call, tool_result>>
        ELSE Raise(Wrapped(r.raised, e.type))
    /\ UNCHANGED <<turn, uuid, out, cleanups>>
    /\ UNCHANGED startupVars
    /\ UNCHANGED logVars

\* lines 207 and 218: the resumed stream ends
EndStream2 ==
    /\ pc = "stream2"
    /\ Return(agent_answer)
    /\ UNCHANGED <<turn, uuid, cleanups>>
    /\ UNCHANGED startupVars
    /\ UNCHANGED logVars

(***************************************************************************)
(* chat_loop and the end of main.                                          *)
(***************************************************************************)
\* an except clause that leaves the loop after printing
ChatLoopExcept_Breaks ==
    /\ pc = "except"
    /\ out' = [kind |-> "error", answer |-> None, exc |-> exc]
    /\ exc' = NoExc
    /\ pc' = "cleanup"
    /\ ResetLocals
    /\ UNCHANGED <<turn, uuid, cleanups>>
    /\ UNCHANGED startupVars
    /\ UNCHANGED logVars

\* chat_loop, lines 231-232: the exception is printed and the loop goes on
ChatLoopExcept ==
    /\ pc = "except"
    /\ out' = [kind |-> "error", answer |-> None, exc |-> exc]
    /\ exc' = NoExc
    /\ pc' = "input"
    /\ ResetLocals
    /\ UNCHANGED <<turn, uuid, cleanups>>
    /\ UNCHANGED startupVars
    /\ UNCHANGED logVars

\* a KeyboardInterrupt that leaves main without running the finally clause
Interrupt_SkipsFinally ==
    /\ pc \in {"input", "stream1", "call_tool", "stream2"}
    /\ pc' = "aborted"
    /\ exc' = Exc("KeyboardInterrupt", "")
    /\ ResetLocals
    /\ UNCHANGED <<turn, uuid, out, cleanups>>
    /\ UNCHANGED startupVars
    /\ UNCHANGED logVars

\* chat_loop, lines 223-232, and main, lines 252-254: a KeyboardInterrupt
\* (or the cancellation of the task) while the loop waits for input, for an
\* event or for the tool is not an Exception: the except clause does not
\* catch it, it leaves chat_loop and reaches the finally clause of main
Interrupt ==
    /\ pc \in {"input", "stream1", "call_tool", "stream2"}
    /\ pc' = "cleanup"
    /\ exc' = Exc("KeyboardInterrupt", "")
    /\ ResetLocals
    /\ UNCHANGED <<turn, uuid, out, cleanups>>
    /\ UNCHANGED startupVars
    /\ UNCHANGED logVars

\* main, lines 254-255, and cleanup, lines 234-235; after the finally clause
\* main returns, or the exception that left chat_loop leaves main
Cleanup ==
    /\ pc = "cleanup"
    /\ cleanups' = cleanups + 1
    /\ session' = None
    /\ pc' = IF exc = NoExc THEN "exited" ELSE "aborted"
    /\ UNCHANGED <<argv, mcp_tools, registered, turn, uuid, exc, out>>
    /\ UNCHANGED localVars
    /\ UNCHANGED logVars

Next ==
    \/ \E args \in {<<Str_py>>} \cup {<<Str_py, p>> : p \in ServerPaths} : Main(args)
    \/ \E ok \in BOOLEAN : ConnectToServer(ok)
    \/ \E tools \in ToolLists, ok \in BOOLEAN : GetTools(tools, ok)
    \/ \E outcome \in {"ok", "create_failed", "prepare_failed"} : UpdateBedrockAgent(outcome)
    \/ \E line \in Queries, ok \in BOOLEAN : ReadQuery(line, ok)
    \/ InputEOF
    \/ \E e \in Events : ReadEvent1(e)
    \/ EndStream1
    \/ HandleToolCall
    \/ \E reply \in ToolReplies, ok \in BOOLEAN : CallToolReturns(reply, ok)
    \/ \E e \in Events : ReadEvent2(e)
    \/ EndStream2
    \/ ChatLoopExcept
    \/ Interrupt
    \/ Cleanup

Spec == Init /\ [][Next]_vars

(***************************************************************************)
(* Properties.                                                             *)
(***************************************************************************)
\* the positions inside chat
TurnPcs == {"stream1", "tool", "call_tool", "stream2"}

\* C1: once a returnControl event has been read from the first stream, no
\* further event of that stream is read: the next step of the turn is the
\* extraction of the request for the tool call.
C1_NoReadAfterReturnControl ==
    [][(pc = "stream1" /\ function_call # NoEvent) => pc' = "tool"]_vars

\* C2: a resume invoke carries the invocationId, actionGroup and function of
\* the returnControl event whose function and parameters were passed to the
\* tool server in the same turn.
C2_ResumeEchoesRequest ==
    \A i \in DOMAIN invokes :
        invokes[i].kind = "resume" =>
            /\ Len(toolCalls) = 1
            /\ toolCalls[1].name = toolCalls[1].request.function
            /\ toolCalls[1].args = ToolArgs(toolCalls[1].request.parameters)
            /\ invokes[i].sessionState.invocationId = toolCalls[1].request.invocationId
            /\ invokes[i].sessionState.actionGroup = toolCalls[1].request.actionGroup
            /\ invokes[i].sessionState.function = toolCalls[1].request.function

\* a resume of the second turn that echoes the second invocation id
C2_Witness ==
    /\ turn = 2
    /\ pc = "stream2"
    /\ Len(invokes) = 2
    /\ invokes[2].sessionState.invocationId = "inv-2"
    /\ invokes[2].sessionState.actionGroup = "other_group"

\* C3: within one turn the resume invoke carries the sessionId of the
\* initial invoke.
C3_SameSessionWithinTurn ==
    \A i \in DOMAIN invokes :
        /\ invokes[1].kind = "initial"
        /\ invokes[i].sessionId = invokes[1].sessionId

\* a turn with an initial and a resume invoke
C3_Witness ==
    /\ Len(invokes) = 2
    /\ invokes[1].kind = "initial"
    /\ invokes[2].kind = "resume"
    /\ Len(toolCalls) = 1

\* C4: every invoke call of one run of chat_loop carries the same sessionId.
C4_OneSessionPerRun == Cardinality(runSessions) <= 1

\* C5: a failure of chat is reported by chat_loop, which then prompts for
\* the next query; a turn or its failure never ends the loop (only an
\* interrupt, which is no failure of chat, leaves it from inside a turn).
C5_TurnFailureNonFatal ==
    [][ /\ pc = "except" =>
            (pc' = "input" /\ out'.kind = "error" /\ out'.exc = exc)
        /\ pc \in TurnPcs =>
            \/ pc' \in TurnPcs \cup {"input", "except"}
            \/ exc'.type = "KeyboardInterrupt" ]_vars

\* the loop is at the prompt after it reported an unexpected event, and may
\* read another query
C5_Witness ==
    /\ pc = "input"
    /\ out.kind = "error"
    /\ out.exc.msg = "unexpected event."
    /\ turn < MaxTurns

\* C6: a returnControl event in the resumed stream fails the turn as an
\* unexpected event, with no further call_tool or invoke_agent request.
C6_SecondReturnControlFails ==
    [][(pc = "stream2" /\ \E e \in ReturnControlEvents : ReadEvent2(e)) =>
            /\ pc' = "except"
            /\ exc' = Wrapped("Exception", "returnControl")
            /\ Len(toolCalls') = 1
            /\ Len(invokes') = 2]_vars

\* the turn failed on a returnControl event of the resumed stream
C6_Witness ==
    /\ pc = "except"
    /\ exc.key = "returnControl"
    /\ Len(invokes) = 2

\* C7: reading a trace event, from the first or the resumed stream, changes
\* nothing that decides the outcome of the turn and does not fail it.
C7_TraceNeverAffectsTurn ==
    [][(\E e \in TraceEvents : ReadEvent1(e) \/ ReadEvent2(e)) =>
            /\ pc' = pc
            /\ UNCHANGED <<function_call, agent_answer, invokes, toolCalls>>]_vars

\* item names that occur more than once in a parameter list
HasDuplicateNames(function_args) ==
    \E i, j \in DOMAIN function_args :
        i # j /\ function_args[i].name = function_args[j].name

\* C8: a request whose parameter list repeats a name fails with
\* ArgumentError and the tool server is not called.
C8_DuplicateArgsRejected ==
    [][(pc = "tool" /\ HasDuplicateNames(function_call.parameters)) =>
            /\ pc' = "except"
            /\ exc'.type = "ArgumentError"
            /\ toolCalls' = toolCalls]_vars

\* the parameters that the registered definition of name marks required
RequiredParams(name) ==
    UNION { {p \in DOMAIN registered[k].parameters : registered[k].parameters[p].required} :
            k \in {j \in DOMAIN registered : registered[j].name = name} }

ArgNamesOf(function_args) == {function_args[i].name : i \in DOMAIN function_args}

\* C9: a request that lacks a parameter its function definition requires
\* fails with ArgumentError and no call_tool request is made.
C9_MissingRequiredRejected ==
    [][(pc = "tool"
        /\ ~(RequiredParams(function_call.function)
                \subseteq ArgNamesOf(function_call.parameters))) =>
            /\ pc' = "except"
            /\ exc'.type = "ArgumentError"
            /\ toolCalls' = toolCalls]_vars

RegisteredNames == {registered[k].name : k \in DOMAIN registered}

\* C10: a request that names a function not among the registered tools
\* fails with ToolNotFound and no call_tool request is made.
C10_UnknownToolRejected ==
    [][(pc = "tool" /\ function_call.function \notin RegisteredNames) =>
            /\ pc' = "except"
            /\ exc'.type = "ToolNotFound"
            /\ toolCalls' = toolCalls]_vars

\* a content list with a text segment
HasText(content) == \E i \in DOMAIN content : content[i].type = "text"

\* the text of the first text segment of a content list
FirstText(content) ==
    content[CHOOSE i \in DOMAIN content :
                /\ content[i].type = "text"
                /\ \A j \in DOMAIN content : content[j].type = "text" => i <= j].text

Response(answer) == [kind |-> "response", answer |-> answer, exc |-> NoExc]

\* C11: while no returnControl event was read, chunk and trace events of the
\* first stream are read without failing the turn, the answer is the text of
\* the most recent chunk, and at the end of the stream chat returns it after
\* one invoke call and no call of the tool server.
C11_ChunkOnlyStreamReturnsLastChunk ==
    [][(pc = "stream1" /\ function_call = NoEvent) =>
            /\ \A e \in ChunkEvents :
                    ReadEvent1(e) => (pc' = "stream1" /\ agent_answer' = e.text)
            /\ \A e \in TraceEvents :
                    ReadEvent1(e) => (pc' = "stream1" /\ agent_answer' = agent_answer)
            /\ EndStream1 =>
                    /\ out' = Response(agent_answer)
                    /\ Len(invokes') = 1
                    /\ toolCalls' = <<>>]_vars

\* C12: for a returnControl request naming f with a parameter list, the tool
\* server is called once with f and the mapping of the list, a resume invoke
\* carries the first text segment of the tool result, and chat returns the
\* last chunk of the resumed stream.
C12_ReturnControlRoundTrip ==
    [][ /\ pc = "tool" =>
            toolCalls' = <<[name |-> function_call.function,
                            args |-> ToolArgs(function_call.parameters),
                            request |-> function_call]>>
        /\ \A reply \in ToolReplies :
            (~reply.raised /\ HasText(reply.content) /\ CallToolReturns(reply, TRUE)) =>
                /\ pc' = "stream2"
                /\ invokes' = Append(invokes,
                        ResumeRequest(session_id, function_call, FirstText(reply.content)))
        /\ EndStream2 => out' = Response(agent_answer) ]_vars

\* C13: in one turn at most one initial invoke, one call_tool request and one
\* resume invoke are issued, whatever fails.
C13_NoRetries ==
    /\ Len(toolCalls) <= 1
    /\ Cardinality({i \in DOMAIN invokes : invokes[i].kind = "initial"}) <= 1
    /\ Cardinality({i \in DOMAIN invokes : invokes[i].kind = "resume"}) <= 1
    /\ Len(invokes) <= 1 + Len(toolCalls)

\* the tool call failed and the failure reached chat_loop after one request
C13_Witness ==
    /\ pc = "except"
    /\ exc.type = "McpError"
    /\ Len(toolCalls) = 1
    /\ Len(invokes) = 1

\* a step of chat that issues the resume invoke
IssuesResume == Len(invokes) = 1 /\ Len(invokes') = 2

\* the step is the return of call_tool with a result that has a text segment
ReturnsText ==
    /\ pc = "call_tool"
    /\ \E reply \in ToolReplies, ok \in BOOLEAN :
            ~reply.raised /\ HasText(reply.content) /\ CallToolReturns(reply, ok)

LoopPcs == TurnPcs \cup {"input", "except"}

\* the positions of main before chat_loop
StartupPcs == {"connect", "get_tools", "update_agent"}

\* C15: when main has ended after the session loop was entered, by quit or
\* by an exception or interrupt that left chat_loop, cleanup was called
\* exactly once; it is not called while the loop runs and never twice.
C15_CleanupExactlyOnce ==
    /\ cleanups <= 1
    /\ pc \in {"exited", "aborted"} => cleanups = 1
    /\ pc \in LoopPcs \cup {"cleanup"} => cleanups = 0

\* an interrupt left chat_loop during a turn and cleanup ran once
C15_Witness ==
    /\ pc = "aborted"
    /\ exc.type = "KeyboardInterrupt"
    /\ turn > 0
    /\ cleanups = 1

\* C16: a failure of connect_to_server, get_tools or update_bedrock_agent
\* ends main: the session loop is entered only after the three succeeded,
\* and after a failure no query is read and no turn is invoked.
C16_StartupErrorsFatal ==
    /\ [](pc \in LoopPcs =>
            (session = "ClientSession" /\ mcp_tools # <<>> /\ registered = mcp_tools))
    /\ [](pc = "crashed" =>
            (turn = 0 /\ invokes = <<>> /\ runSessions = {} /\ out = NoOutput))
    /\ [][ /\ (pc \in StartupPcs /\ exc' # NoExc) => pc' = "crashed"
           /\ pc = "crashed" => pc' = "crashed" ]_vars

\* the translation of get_tools failed and main ended before the loop
C16_Witness ==
    /\ pc = "crashed"
    /\ exc.type = "KeyError"
    /\ session = "ClientSession"
    /\ turn = 0

\* the required-parameter set of a tool as list_tools reports it: empty when
\* the input schema has no 'required' key
RequiredOf(tool) ==
    IF "required" \in DOMAIN tool.inputSchema THEN tool.inputSchema.required ELSE {}

\* C17: for every tool list, get_tools yields one function definition per
\* tool, in the same order and with the same name, each parameter's required
\* flag being true iff the name is in the tool's required set.
C17_TranslationPreservesTools ==
    [][pc = "get_tools" =>
        \A tools \in ToolLists :
            GetTools(tools, TRUE) =>
                /\ pc' = "update_agent"
                /\ Len(mcp_tools') = Len(tools)
                /\ \A i \in DOMAIN tools :
                    /\ mcp_tools'[i].name = tools[i].name
                    /\ DOMAIN mcp_tools'[i].parameters
                            = DOMAIN tools[i].inputSchema.properties
                    /\ \A p \in DOMAIN tools[i].inputSchema.properties :
                            mcp_tools'[i].parameters[p].required
                                <=> (p \in RequiredOf(tools[i]))]_vars

\* C18: in a turn with a return-control interruption the answer comes from
\* the resumed stream only: the answer of the first stream is dropped when
\* the agent is resumed, each chunk of the resumed stream replaces it, and
\* chat returns it (None when the resumed stream had no chunk).
C18_AnswerFromResumedStreamOnly ==
    [][ /\ (pc = "call_tool" /\ pc' = "stream2") => agent_answer' = None
        /\ pc = "stream2" =>
            /\ \A e \in ChunkEvents : ReadEvent2(e) => agent_answer' = e.text
            /\ EndStream2 => out' = Response(agent_answer) ]_vars

\* a turn with an interruption returned None: the resumed stream had no chunk
C18_Witness ==
    /\ pc = "input"
    /\ out = Response(None)
    /\ Len(invokes) = 2
    /\ Len(toolCalls) = 1

\* C19: chat_loop ends normally only on reading a line that equals quit
\* after stripping and lower-casing; an EOFError of input() is caught like a
\* failure of chat: it is printed and the loop prompts again.
C19_OnlyQuitEndsLoop ==
    [][ /\ (pc # "cleanup" /\ pc' = "cleanup" /\ exc' = NoExc) =>
            /\ pc = "input"
            /\ \E line \in Queries :
                    Lower(Strip(line)) = Str_quit /\ ReadQuery(line, TRUE)
        /\ InputEOF => (pc' = "except" /\ exc'.type = "EOFError")
        /\ (pc = "except" /\ exc.type = "EOFError") =>
            (pc' = "input" /\ out'.kind = "error" /\ out'.exc.type = "EOFError") ]_vars

\* the loop is back at the prompt after it printed the EOFError
C19_Witness ==
    /\ pc = "input"
    /\ out.kind = "error"
    /\ out.exc.type = "EOFError"
    /\ cleanups = 0

\* C20: when the first stream ends with no chunk and no returnControl read,
\* chat returns None after one invoke and no tool call, and chat_loop prints
\* it as a response.
C20_EmptyStreamReturnsNone ==
    [][(pc = "stream1" /\ function_call = NoEvent /\ agent_answer = None
        /\ EndStream1) =>
            /\ pc' = "input"
            /\ out' = Response(None)
            /\ Len(invokes') = 1
            /\ toolCalls' = <<>>]_vars

\* a turn without interruption returned None
C20_Witness ==
    /\ pc = "input"
    /\ out = Response(None)
    /\ Len(invokes) = 1
    /\ toolCalls = <<>>

====
